---- MODULE Spec2Model ----
(***************************************************************************)
(* Grant-proposal compliance pipeline: the three orchestrators             *)
(* (AgentOrchestrator, SequentialWorkflowOrchestrator,                     *)
(* SequentialWorkflowOrchestratorFoundry), the risk scoring agent and the  *)
(* e-mail trigger agent.                                                   *)
(*                                                                         *)
(* Numbers.  Python floats are modelled by exact scaled integers:          *)
(*   compliance_score, confidence_score, quality and completeness scores   *)
(*   are whole numbers; a compliance-risk score is kept in thousandths,    *)
(*   the weighted overall score in ten-thousandths, and the overall_score  *)
(*   stored in a risk report (round(x, 2)) in hundredths.                  *)
(* Lists are sequences; only their length and members matter.              *)
(* Strings that the code converts are sequences of one-character strings.  *)
(***************************************************************************)
EXTENDS Integers, Sequences, FiniteSets, TLC

VARIABLES
    variant,            \* which orchestrator class runs the submission
    send_email,         \* the caller's option: notify if the risk warrants it
    email_agent,        \* EmailTriggerAgent fields set by __init__
    pc,                 \* position of the submission inside process_grant_proposal_async
    workflow_results,   \* the orchestrator's workflow_results dict
    state_steps,        \* state['steps'] of the WorkflowState passed between executors
    metadata,           \* result of extract_metadata
    summary,            \* result of generate_summary / _parse_summary
    compliance_analysis, \* result of ComplianceAgent.analyze_proposal
    compliance_report,  \* the compliance report handed to risk scoring
    risk_report,        \* result of calculate_risk_score
    outcome,            \* what the caller of process_grant_proposal_async receives
    history,            \* stage events of this submission, oldest first
    attempts,           \* channels invoked by the current send_email call, oldest first
    send_result,        \* the delivery record send_email returns
    log,                \* what send_email has written with logger.warning, oldest first
    search_connection_id, \* self.search_connection_id of the Foundry orchestrator
    document_agent,     \* DocumentIngestionAgent fields set by __init__
    file,               \* the file handed to process_document
    document_data,      \* what process_document returns or raises
    extraction,         \* a run of the heuristic extractor: the text and what was extracted
    should_send,        \* what should_send_email returned for risk_report
    variant_results,    \* the results of each orchestrator class for one and the same document
    submissions,        \* the concurrent submissions handed to one orchestrator
    cached_agent,       \* self._agent of the orchestrator's ComplianceAgent
    threads,            \* the messages of every thread the cached agent has created
    webhook,            \* a request to the SharePoint webhook: position, response, queue
    upload              \* a request to /api/process/upload and its response

vars == << variant, send_email, email_agent, pc, workflow_results, state_steps,
           metadata, summary, compliance_analysis, compliance_report, risk_report,
           outcome, history, attempts, send_result, log, search_connection_id,
           document_agent, file, document_data, extraction, should_send,
           variant_results, submissions, cached_agent, threads, webhook, upload >>

----------------------------------------------------------------------------
(* Bounds of the model *)

\* longest analysis text, in phrases
MaxPhrases == 2
\* largest number of items in key_topics / key_clauses
MaxItems == 3
\* largest number of pages of a document
MaxPages == 2
\* largest number of executive orders handed to the scoring engine
MaxEOs == 2

----------------------------------------------------------------------------
(* Strings *)

Unbound == [unbound |-> TRUE]

\* str.lower() on the characters that occur in a status
LowerChar(c) ==
    CASE c = "C" -> "c"
      [] c = "N" -> "n"
      [] c = "R" -> "r"
      [] OTHER   -> c

Lower(s) == [i \in DOMAIN s |-> LowerChar(s[i])]

\* str.replace(old, new) for single characters
Replace(s, old, new) == [i \in DOMAIN s |-> IF s[i] = old THEN new ELSE s[i]]

\* the three values returned by ComplianceAgent._extract_status
STATUS_Compliant      == << "C","o","m","p","l","i","a","n","t" >>
STATUS_NonCompliant   == << "N","o","n","-","C","o","m","p","l","i","a","n","t" >>
STATUS_RequiresReview == << "R","e","q","u","i","r","e","s"," ","R","e","v","i","e","w" >>

\* the literals the orchestrators compare a status with
LIT_compliant       == << "c","o","m","p","l","i","a","n","t" >>
LIT_non_compliant   == << "n","o","n","_","c","o","m","p","l","i","a","n","t" >>
LIT_requires_review == << "r","e","q","u","i","r","e","s","_","r","e","v","i","e","w" >>

\* a list of n items
Items(n) == [i \in 1..n |-> i]

Max(a, b) == IF a >= b THEN a ELSE b
Min(a, b) == IF a <= b THEN a ELSE b

----------------------------------------------------------------------------
(* RiskScoringAgent *)

HIGH_RISK_THRESHOLD   == 60
MEDIUM_RISK_THRESHOLD == 75
LOW_RISK_THRESHOLD    == 90

\* weights, in percent
WEIGHT_compliance   == 60
WEIGHT_quality      == 25
WEIGHT_completeness == 15

\* calculate_compliance_risk with the confidence left out of the product
calculate_compliance_risk_unweighted(cr) ==
    LET risk_score == cr.compliance_score * 100 * 10
    IN  IF cr.confidence_score < 60 THEN (risk_score * 9) \div 10 ELSE risk_score

\* calculate_compliance_risk with the 0.9 factor applied from a confidence of
\* 60 upwards instead of below it
calculate_compliance_risk_reduced_above(cr) ==
    LET risk_score == cr.compliance_score * cr.confidence_score * 10
    IN  IF cr.confidence_score >= 60 THEN (risk_score * 9) \div 10 ELSE risk_score

\* compliance_score * (confidence_score / 100), times 0.9 when the confidence
\* is below 60; in thousandths
calculate_compliance_risk(cr) ==
    LET risk_score == cr.compliance_score * cr.confidence_score * 10
    IN  IF cr.confidence_score < 60 THEN (risk_score * 9) \div 10 ELSE risk_score

calculate_quality_risk(s, m) ==
    LET q0 == 100
        q1 == IF m.word_count < 500 THEN q0 - 30
              ELSE IF m.word_count < 1000 THEN q0 - 15 ELSE q0
        q2 == IF m.page_count < 2 THEN q1 - 10 ELSE q1
        q3 == IF Len(s.key_topics) < 3 THEN q2 - 20 ELSE q2
    IN  Max(0, q3)

calculate_completeness_risk(cr, s) ==
    LET c0 == 100
        c1 == IF Len(s.key_clauses) < 3 THEN c0 - 25 ELSE c0
        c2 == IF Len(cr.relevant_executive_orders) = 0 THEN c1 - 40
              ELSE IF Len(cr.relevant_executive_orders) < 2 THEN c1 - 20 ELSE c1
    IN  Max(0, c2)

\* weighted_overall_score with weights that sum to 110 percent
weighted_overall_score_overweight(cr, s, m) ==
      calculate_compliance_risk(cr) * (WEIGHT_compliance \div 10)
    + calculate_quality_risk(s, m) * WEIGHT_quality * 100
    + calculate_completeness_risk(cr, s) * WEIGHT_quality * 100

\* the weighted overall score before rounding, in ten-thousandths
weighted_overall_score(cr, s, m) ==
      calculate_compliance_risk(cr) * (WEIGHT_compliance \div 10)
    + calculate_quality_risk(s, m) * WEIGHT_quality * 100
    + calculate_completeness_risk(cr, s) * WEIGHT_completeness * 100

\* determine_risk_level with the medium threshold tested before the low one
determine_risk_level_medium_first(score) ==
    IF score >= MEDIUM_RISK_THRESHOLD * 10000 THEN "medium"
    ELSE IF score >= LOW_RISK_THRESHOLD * 10000 THEN "low"
    ELSE IF score >= HIGH_RISK_THRESHOLD * 10000 THEN "medium-high"
    ELSE "high"

\* score in ten-thousandths
determine_risk_level(score) ==
    IF score >= LOW_RISK_THRESHOLD * 10000 THEN "low"
    ELSE IF score >= MEDIUM_RISK_THRESHOLD * 10000 THEN "medium"
    ELSE IF score >= HIGH_RISK_THRESHOLD * 10000 THEN "medium-high"
    ELSE "high"

\* score in ten-thousandths
notification_needed(score) == score < MEDIUM_RISK_THRESHOLD * 10000

\* round(score, 2): the hundredths a score in ten-thousandths rounds to.  A
\* score exactly half way between two hundredths rounds to either neighbour,
\* depending on the binary representation of the float.
round2(score) ==
    LET fl  == score \div 100
        rem == score % 100
    IN  IF rem < 50 THEN {fl}
        ELSE IF rem > 50 THEN {fl + 1}
        ELSE {fl, fl + 1}

\* the risk reports calculate_risk_score can return
calculate_risk_score(cr, s, m) ==
    LET overall_score == weighted_overall_score(cr, s, m)
    IN  { [ overall_score         |-> r,
            risk_level            |-> determine_risk_level(overall_score),
            requires_notification |-> notification_needed(overall_score),
            compliance_risk       |-> calculate_compliance_risk(cr),
            quality_risk          |-> calculate_quality_risk(s, m),
            completeness_risk     |-> calculate_completeness_risk(cr, s) ]
          : r \in round2(overall_score) }

\* should_send_email that notifies for the level 'high' only
should_send_email_high_only(rr) ==
    IF rr.risk_level = "high"
    THEN << TRUE, << "High risk proposal requires immediate attorney notification" >> >>
    ELSE << FALSE, << "Risk level acceptable - no notification required" >> >>

\* should_send_email: (should_send, reason); the reason is the sequence of the
\* parts of the formatted string, the reported score in hundredths
should_send_email(rr) ==
    IF rr.risk_level = "high"
    THEN << TRUE, << "High risk proposal requires immediate attorney notification" >> >>
    ELSE IF rr.risk_level = "medium-high"
    THEN << TRUE, << "Medium-high risk proposal requires attorney review" >> >>
    ELSE IF rr.overall_score < MEDIUM_RISK_THRESHOLD * 100
    THEN << TRUE, << "Risk score ", rr.overall_score, " below threshold (",
                     MEDIUM_RISK_THRESHOLD, ")" >> >>
    ELSE << FALSE, << "Risk level acceptable - no notification required" >> >>

----------------------------------------------------------------------------
(* Analysis text returned by the compliance model *)

\* An analysis text is [phrases, confidence, eos]:
\*   phrases     the lower-cased wording, phrase by phrase
\*   confidence  the integers that follow a "confidence score" marker, in
\*               order of occurrence
\*   eos         the five-digit numbers that follow an "Executive Order"
\*               marker, in order of occurrence
Phrases == { "compliant", "non-compliant", "no concerns",
             "meets requirements, complies with and aligns with the order, satisfies it: no issues" }

\* the indicators that occur, once each, in the long phrase
FavourableIndicators == { "meets requirements", "complies with", "aligns with",
                          "satisfies", "no issues", "issue" }

\* str.count(indicator) / `indicator in` on one phrase
Occurrences(indicator, phrase) ==
    CASE indicator = phrase -> 1
      [] indicator = "compliant" /\ phrase = "non-compliant" -> 1
      [] indicator = "concern"   /\ phrase = "no concerns"   -> 1
      [] indicator \in FavourableIndicators
         /\ phrase = "meets requirements, complies with and aligns with the order, satisfies it: no issues" -> 1
      [] OTHER -> 0

RECURSIVE Count(_, _)
Count(phrases, indicator) ==
    IF phrases = << >> THEN 0
    ELSE Occurrences(indicator, Head(phrases)) + Count(Tail(phrases), indicator)

Contains(text, indicator) == Count(text.phrases, indicator) > 0

\* list(set(matches)): the distinct members, each once
RECURSIVE Unique(_)
Unique(seq) ==
    IF seq = << >> THEN << >>
    ELSE LET rest == Unique(SubSeq(seq, 1, Len(seq) - 1))
             last == seq[Len(seq)]
         IN  IF \E i \in DOMAIN rest : rest[i] = last THEN rest
             ELSE Append(rest, last)

----------------------------------------------------------------------------
(* ComplianceAgent *)

extract_confidence_score(text) ==
    IF text.confidence /= << >> THEN Head(text.confidence) ELSE 70

\* extract_status with the test for "compliant" made first
extract_status_compliant_first(text) ==
    IF Contains(text, "compliant") THEN STATUS_Compliant
    ELSE IF Contains(text, "non-compliant") THEN STATUS_NonCompliant
    ELSE STATUS_RequiresReview

extract_status(text) ==
    IF Contains(text, "compliant") /\ ~Contains(text, "non-compliant")
    THEN STATUS_Compliant
    ELSE IF Contains(text, "non-compliant") THEN STATUS_NonCompliant
    ELSE STATUS_RequiresReview

extract_relevant_executive_orders(text) == Unique(text.eos)

analyze_proposal(text) ==
    [ confidence_score          |-> extract_confidence_score(text),
      status                    |-> extract_status(text),
      relevant_executive_orders |-> extract_relevant_executive_orders(text) ]

----------------------------------------------------------------------------
(* Compliance score from the analysis (AgentOrchestrator and the Foundry   *)
(* orchestrator carry the same function)                                   *)

negative_indicators ==
    << <<"violation", -10>>, <<"non-compliant", -10>>, <<"concern", -5>>,
       <<"issue", -3>>, <<"risk", -3>>, <<"problem", -5>>, <<"fails to", -8>>,
       <<"does not comply", -10>>, <<"missing", -5>>, <<"lacks", -5>>,
       <<"dei", -5>>, <<"diversity", -3>>, <<"gender ideology", -5>> >>

positive_indicators ==
    << <<"compliant", 5>>, <<"meets requirements", 8>>, <<"aligns with", 5>>,
       <<"satisfies", 5>>, <<"complies with", 8>>, <<"no concerns", 10>>,
       <<"no issues", 8>> >>

RECURSIVE penalty_of(_, _)
penalty_of(text, indicators) ==
    IF indicators = << >> THEN 0
    ELSE Min(Count(text.phrases, Head(indicators)[1]), 3) * Head(indicators)[2]
         + penalty_of(text, Tail(indicators))

RECURSIVE bonus_of(_, _)
bonus_of(text, indicators) ==
    IF indicators = << >> THEN 0
    ELSE (IF Contains(text, Head(indicators)[1]) THEN Head(indicators)[2] ELSE 0)
         + bonus_of(text, Tail(indicators))

base_score_of(status) ==
    IF status = LIT_compliant THEN 90
    ELSE IF status = LIT_non_compliant THEN 30
    ELSE 60

calculate_compliance_score_from_analysis(status, text, relevant_eos) ==
    LET base_score == base_score_of(status)
        penalty0   == penalty_of(text, negative_indicators)
        bonus0     == bonus_of(text, positive_indicators)
        bonus      == IF Len(relevant_eos) >= 2 THEN bonus0 + 5 ELSE bonus0
        penalty    == IF Len(relevant_eos) >= 2 THEN penalty0
                      ELSE IF Len(relevant_eos) = 0 THEN penalty0 - 10
                      ELSE penalty0
        final_score == base_score + bonus + penalty
    IN  Max(0, Min(100, final_score))

\* AgentOrchestrator: lines 127-147 of process_grant_proposal_async
agent_compliance_report(text) ==
    LET analysis == analyze_proposal(text)
        status == Replace(Lower(analysis.status), " ", "_")
    IN  [ compliance_score |-> calculate_compliance_score_from_analysis(
                                   status, text,
                                   analysis.relevant_executive_orders),
          overall_status   |-> status,
          confidence_score |-> analysis.confidence_score,
          violations       |-> << >>,
          warnings         |-> << >>,
          relevant_executive_orders |-> analysis.relevant_executive_orders ]

\* ComplianceValidationExecutor.process: the confidence is used as the score
executor_compliance_report(text) ==
    LET analysis == analyze_proposal(text)
    IN  [ compliance_score |-> analysis.confidence_score,
          overall_status   |-> Replace(Lower(analysis.status), " ", "_"),
          confidence_score |-> analysis.confidence_score,
          violations       |-> << >>,
          warnings         |-> << >>,
          relevant_executive_orders |-> analysis.relevant_executive_orders ]

\* SequentialWorkflowOrchestratorFoundry._parse_compliance
parse_compliance(text) ==
    LET confidence_score == IF text.confidence /= << >>
                            THEN Min(100, Max(0, Head(text.confidence))) ELSE 70
        status == IF Contains(text, "compliant") /\ ~Contains(text, "non-compliant")
                  THEN LIT_compliant
                  ELSE IF Contains(text, "non-compliant") THEN LIT_non_compliant
                  ELSE LIT_requires_review
        executive_orders == Unique(text.eos)
    IN  [ compliance_score |-> calculate_compliance_score_from_analysis(
                                   status, text, executive_orders),
          overall_status   |-> status,
          confidence_score |-> confidence_score,
          violations       |-> << >>,
          warnings         |-> << >>,
          relevant_executive_orders |-> executive_orders ]

\* _determine_overall_status, identical in the three orchestrators
determine_overall_status(cr, rr) ==
    IF rr.risk_level = "high" \/ cr.overall_status = LIT_non_compliant
    THEN "requires_legal_review"
    ELSE IF rr.risk_level \in {"medium-high", "medium"} THEN "requires_review"
    ELSE "approved_with_conditions"

----------------------------------------------------------------------------
(* EmailTriggerAgent *)

\* the environment read by EmailTriggerAgent.__init__
SmtpEnvironments ==
    { [SMTP_ENABLED |-> FALSE, SMTP_USERNAME |-> "",     SMTP_PASSWORD |-> ""],
      [SMTP_ENABLED |-> TRUE,  SMTP_USERNAME |-> "user", SMTP_PASSWORD |-> ""],
      [SMTP_ENABLED |-> TRUE,  SMTP_USERNAME |-> "user", SMTP_PASSWORD |-> "secret"] }

Environments ==
    { [AZURE_CLIENT_ID |-> c, smtp |-> e] : c \in {"", "client"}, e \in SmtpEnvironments }

EmailTriggerAgent_init(use_graph_api, env) ==
    [ use_graph_api |-> IF use_graph_api /\ env.AZURE_CLIENT_ID = "" THEN FALSE
                        ELSE use_graph_api,
      smtp_enabled  |-> env.smtp.SMTP_ENABLED,
      smtp_username |-> env.smtp.SMTP_USERNAME,
      smtp_password |-> env.smtp.SMTP_PASSWORD ]

\* the condition of the SMTP branch of send_email
smtp_usable(agent) ==
    agent.smtp_enabled /\ agent.smtp_username /= "" /\ agent.smtp_password /= ""

graph_api_result == [status |-> "sent",      method |-> "graph_api"]
\* smtp_result carrying the method of the Graph API record
smtp_result_mislabelled == [status |-> "sent", method |-> "graph_api"]
smtp_result      == [status |-> "sent",      method |-> "smtp"]
simulated_result == [status |-> "simulated", method |-> "demo"]

\* what the Graph API answers to sendMail: 202 Accepted, or a status for which
\* _send_via_graph_api raises
GraphApiResponses == { 202, 401, 403, 404 }

\* the message of the exception _send_via_graph_api raises for a response
graph_api_error(response) ==
    CASE response = 401 -> "401 Unauthorized"
      [] response = 403 -> "403 Forbidden"
      [] response = 404 -> "404 Not Found"

\* how the SMTP session ends: the message is sent, or smtplib raises
SmtpOutcomes == { "sent", "SMTPAuthenticationError", "SMTPException" }

\* the message of the exception _send_via_smtp raises
smtp_error(smtp_outcome) ==
    CASE smtp_outcome = "SMTPAuthenticationError" -> "SMTP authentication failed"
      [] smtp_outcome = "SMTPException"           -> "SMTP error"

\* logger.warning in the except clauses of send_email
warning(channel, error) == [level |-> "warning", channel |-> channel, error |-> error]

\* pc_after_graph_api without the return after a successful Graph API call
pc_after_graph_api_fallthrough(ok) == "graph_failed"

\* send_email after the Graph API call: return its result, or go on to SMTP
pc_after_graph_api(ok) == IF ok THEN "send_returned" ELSE "graph_failed"

\* pc_after_smtp without the return after a successful SMTP call
pc_after_smtp_fallthrough(ok) == "smtp_failed"

\* send_email after the SMTP call: return its result, or go on to simulation
pc_after_smtp(ok) == IF ok THEN "send_returned" ELSE "smtp_failed"

\* pc_after_simulation with the simulation raising like the channels before it
pc_after_simulation_raise == "failed"

\* send_email after _simulate_email_send: return its result
pc_after_simulation == "send_returned"

----------------------------------------------------------------------------
(* DocumentIngestionAgent *)

\* the environment read by DocumentIngestionAgent.__init__
IngestionEnvironments ==
    { [ENDPOINT |-> "",         API_KEY |-> ""],
      [ENDPOINT |-> "endpoint", API_KEY |-> ""],
      [ENDPOINT |-> "endpoint", API_KEY |-> "key"] }

DocumentIngestionAgent_init(use_azure, env) ==
    [ use_azure      |-> IF use_azure /\ env.ENDPOINT = "" THEN FALSE ELSE use_azure,
      azure_endpoint |-> env.ENDPOINT,
      azure_key      |-> env.API_KEY ]

\* Path(file_path).suffix of the files submitted
Suffixes == { ".txt", ".PDF", ".docx", ".exe" }

\* str.lower() on a suffix
suffix_lower(suffix) == IF suffix = ".PDF" THEN ".pdf" ELSE suffix

\* the text of a file: its number of words and of newlines
Contents == { [words |-> 0,    newlines |-> 0],
              [words |-> 499,  newlines |-> 49],
              [words |-> 1000, newlines |-> 50 * (MaxPages - 1)] }

Files == { [exists |-> x, suffix |-> sfx, contents |-> c] :
           x \in BOOLEAN, sfx \in Suffixes, c \in Contents }

\* the placeholder texts of _process_locally
text_install_PyPDF2   == [words |-> 8, newlines |-> 0]
text_install_docx     == [words |-> 8, newlines |-> 0]
text_unsupported_type == [words |-> 4, newlines |-> 0]

\* the dict _process_locally returns for a text
local_result(text) ==
    [ text       |-> text,
      page_count |-> (text.newlines \div 50) + 1,
      word_count |-> text.words ]

\* the outcomes of _process_locally: the dicts it can return, and raises
\* where the parser library raises on the file
process_locally(f, file_extension) ==
    CASE file_extension = ".txt"  -> { local_result(f.contents) }
      [] file_extension = ".pdf"  -> { local_result(f.contents),
                                       local_result(text_install_PyPDF2),
                                       [raises |-> "PdfReadError"] }
      [] file_extension = ".docx" -> { local_result(f.contents),
                                       local_result(text_install_docx),
                                       [raises |-> "PackageNotFoundError"] }
      [] OTHER -> { local_result(text_unsupported_type) }

\* the dict _process_with_azure returns when the analysis succeeds
azure_result(f) ==
    [ text            |-> f.contents,
      page_count      |-> (f.contents.newlines \div 50) + 1,
      word_count      |-> f.contents.words,
      tables          |-> << >>,
      key_value_pairs |-> << >> ]

\* can _process_with_azure reach the service: endpoint and key are set
azure_credentials(agent) == agent.azure_endpoint /= "" /\ agent.azure_key /= ""

\* result['metadata'] added by process_document
with_metadata(result, agent, file_extension) ==
    [ metadata |-> [ file_type         |-> file_extension,
                     processing_method |-> IF agent.use_azure THEN "azure"
                                           ELSE "local" ] ] @@ result

extract_metadata(data) ==
    [ document_type |-> "grant_proposal",
      word_count    |-> data.word_count,
      page_count    |-> data.page_count ]

\* no extraction is running
IngestionIdle ==
    /\ document_agent = Unbound
    /\ file = Unbound
    /\ document_data = Unbound

\* no submission has been handed to a shared orchestrator
ConcurrencyIdle ==
    /\ submissions = Unbound
    /\ cached_agent = Unbound
    /\ threads = Unbound

\* the state of the operations that are run on their own, outside a submission
standalone == << should_send, variant_results, submissions, cached_agent, threads,
                webhook, upload >>

----------------------------------------------------------------------------
(* The orchestrators *)

Variants == {"agent", "sequential", "foundry"}

Stages == << "ingestion", "summarization", "compliance", "risk_scoring", "notification" >>

StageIndex(s) == CHOOSE i \in DOMAIN Stages : Stages[i] = s

EarlierStages(s) == { Stages[i] : i \in 1..(StageIndex(s) - 1) }

\* next_stage with compliance analysis placed before summarization
next_stage_swapped(s) ==
    CASE s = "ingestion"     -> "compliance"
      [] s = "compliance"    -> "summarization"
      [] s = "summarization" -> "risk_scoring"
      [] s = "risk_scoring"  -> "notification"

\* the stage whose code follows stage s (the edges added by _build_workflow)
next_stage(s) ==
    CASE s = "ingestion"     -> "summarization"
      [] s = "summarization" -> "compliance"
      [] s = "compliance"    -> "risk_scoring"
      [] s = "risk_scoring"  -> "notification"

\* the stages whose results the call of stage s takes as arguments
stage_reads(s) ==
    CASE s = "ingestion"     -> {}
      [] s = "summarization" -> {"ingestion"}
      [] s = "compliance"    -> {"ingestion", "summarization"}
      [] s = "risk_scoring"  -> {"ingestion", "summarization", "compliance"}
      [] s = "notification"  -> {"ingestion", "summarization", "compliance",
                                 "risk_scoring"}

\* os.getenv("AI_SEARCH_PROJECT_CONNECTION_ID", "")
SearchConnectionIds == { "", "connection" }

\* _build_azure_ai_search_tool: the tool, or the ValueError it raises
build_azure_ai_search_tool(connection_id) ==
    IF connection_id = ""
    THEN [raises |-> "AI_SEARCH_PROJECT_CONNECTION_ID must be set for Foundry Agent Service"]
    ELSE [project_connection_id |-> connection_id]

\* dict.update and d[k] = v
Update(d, u) == u @@ d
\* d[k] = v that starts from an empty dict
Put_replace(d, k, v) == (k :> v)
Put(d, k, v) == (k :> v) @@ d

\* where the steps of the submission are recorded
steps_of(v, wr, ss) == IF v = "sequential" THEN ss ELSE wr.steps

Recorded == IF workflow_results = Unbound THEN {}
            ELSE DOMAIN steps_of(variant, workflow_results, state_steps)

StartEvent(s)  == [ev |-> "start",  stage |-> s, recorded |-> Recorded,
                   reads |-> stage_reads(s)]
RecordEvent(s) == [ev |-> "record", stage |-> s, recorded |-> Recorded, reads |-> {}]
FailEvent(s)   == [ev |-> "fail",   stage |-> s, recorded |-> Recorded, reads |-> {}]
CancelEvent(s) == [ev |-> "cancel", stage |-> s, recorded |-> Recorded, reads |-> {}]

\* the except clause of process_grant_proposal_async
failed_results(wr, e) ==
    Update([wr EXCEPT !.status = "failed"], [error |-> e])

\* pc_after_failure with a failed extraction swallowed: the run goes on
pc_after_failure_continue(s) == IF s = "ingestion" THEN "summarization" ELSE "failed"

\* `raise` leaves process_grant_proposal_async
pc_after_failure(s) == "failed"

\* should_notify with `or` in place of `and`
should_notify_either(enabled, rr) == enabled \/ rr.requires_notification

\* the condition of the notification step
should_notify(enabled, rr) == enabled /\ rr.requires_notification

skipped_step(rr) ==
    [ status |-> "skipped",
      reason |-> IF ~rr.requires_notification THEN "Not required" ELSE "Disabled" ]

\* the final results compiled by the notification step
final_results(v, wr, steps, cr, rr, email_sent) ==
    LET compiled == [ status         |-> "completed",
                      email_sent     |-> email_sent,
                      overall_status |-> determine_overall_status(cr, rr) ]
    IN  IF v = "sequential" THEN Update(compiled, [steps |-> steps])
        ELSE Update([wr EXCEPT !.steps = steps], compiled)

----------------------------------------------------------------------------
(* Inputs *)

WordCounts == {499, 500, 1000}
PageCounts == {1, MaxPages}
ItemCounts == {0, MaxItems}

Documents == { [word_count |-> w, page_count |-> p] : w \in WordCounts, p \in PageCounts }

Summaries == { [key_clauses |-> Items(c), key_topics |-> Items(t)] :
               c \in ItemCounts, t \in ItemCounts }

RECURSIVE SeqsUpTo(_, _)
SeqsUpTo(S, n) ==
    IF n = 0 THEN { << >> }
    ELSE LET shorter == SeqsUpTo(S, n - 1)
         IN  shorter \cup { Append(q, x) : q \in shorter, x \in S }

ConfidenceMatches == { << >>, << 55 >>, << 100 >> }
EOMatches == { << >>, << 14151 >>, << 14151, 14151 >>, << 14151, 14173 >> }

AnalysisTexts ==
    { [phrases |-> ph, confidence |-> c, eos |-> e] :
      ph \in SeqsUpTo(Phrases, MaxPhrases), c \in ConfidenceMatches, e \in EOMatches }

----------------------------------------------------------------------------
(* One submission *)

Init ==
    /\ variant \in Variants
    /\ send_email \in BOOLEAN
    /\ email_agent \in { EmailTriggerAgent_init(g, env) :
                         g \in BOOLEAN, env \in Environments }
    /\ pc = "pending"
    /\ workflow_results = Unbound
    /\ state_steps = << >>
    /\ metadata = Unbound
    /\ summary = Unbound
    /\ compliance_report = Unbound
    /\ risk_report = Unbound
    /\ outcome = [kind |-> "pending", result |-> Unbound, error |-> ""]
    /\ history = << >>
    /\ attempts = << >>
    /\ send_result = Unbound
    /\ compliance_analysis = Unbound
    /\ log = << >>
    /\ search_connection_id \in IF variant = "foundry" THEN SearchConnectionIds
                                ELSE { Unbound }
    /\ IngestionIdle
    /\ extraction = Unbound
    /\ should_send = Unbound
    /\ variant_results = Unbound
    /\ ConcurrencyIdle
    /\ webhook = Unbound
    /\ upload = Unbound

\* what no step of a submission changes: its configuration, and the state of
\* the extraction service and of the heuristic extractor, which run on their
\* own in SpecIngest and SpecExtract
config     == << variant, send_email, email_agent, search_connection_id,
                 document_agent, file, document_data, extraction, should_send,
                 variant_results, submissions, cached_agent, threads, webhook,
                 upload >>
compliance == << compliance_analysis, compliance_report >>
sending    == << attempts, send_result, log >>

\* process_grant_proposal_async is called
Submit ==
    /\ pc = "pending"
    /\ workflow_results' = [status |-> "in_progress", steps |-> << >>]
    /\ pc' = "ingestion"
    /\ UNCHANGED << config, state_steps, metadata, summary, compliance,
                    risk_report, outcome, history, sending >>

\* stage s has produced step: it is recorded where the variant keeps its steps
RecordStep(s, step) ==
    IF variant = "sequential"
    THEN /\ state_steps' = Put(state_steps, s, step)
         /\ UNCHANGED workflow_results
    ELSE /\ workflow_results' = [workflow_results EXCEPT !.steps = Put(@, s, step)]
         /\ UNCHANGED state_steps

\* stage s has raised: the except clause runs and the exception reaches the caller
Fail(s) ==
    /\ workflow_results' = failed_results(workflow_results, s)
    /\ pc' = pc_after_failure(s)
    /\ outcome' = [kind |-> "raised", result |-> Unbound, error |-> s]
    /\ UNCHANGED state_steps

\* Step 1: process_document and extract_metadata
Ingestion ==
    /\ pc = "ingestion"
    /\ \/ \E m \in Documents :
             /\ metadata' = m
             /\ RecordStep("ingestion", [status |-> "completed", metadata |-> m])
             /\ history' = history \o << StartEvent("ingestion"), RecordEvent("ingestion") >>
             /\ pc' = next_stage("ingestion")
             /\ UNCHANGED outcome
       \/ /\ Fail("ingestion")
          /\ history' = history \o << StartEvent("ingestion"), FailEvent("ingestion") >>
          /\ UNCHANGED metadata
    /\ UNCHANGED << config, summary, compliance, risk_report, sending >>

\* Step 2: the summarization model is called; the submission is suspended
SummarizationCall ==
    /\ pc = "summarization"
    /\ pc' = "await_summarization"
    /\ history' = Append(history, StartEvent("summarization"))
    /\ UNCHANGED << config, workflow_results, state_steps, metadata, summary,
                    compliance, risk_report, outcome, sending >>

SummarizationReturn ==
    /\ pc = "await_summarization"
    /\ \E s \in Summaries :
          /\ summary' = s
          /\ RecordStep("summarization", [status |-> "completed", summary |-> s])
    /\ history' = Append(history, RecordEvent("summarization"))
    /\ pc' = next_stage("summarization")
    /\ UNCHANGED << config, metadata, compliance, risk_report, outcome, sending >>

SummarizationRaise ==
    /\ pc = "await_summarization"
    /\ Fail("summarization")
    /\ history' = Append(history, FailEvent("summarization"))
    /\ UNCHANGED << config, metadata, summary, compliance, risk_report, sending >>

\* the search tool Step 3 of the Foundry orchestrator builds before it calls
\* the compliance model; the other orchestrators build none here
search_tool == IF variant = "foundry" THEN build_azure_ai_search_tool(search_connection_id)
               ELSE Unbound

\* Step 3 of the Foundry orchestrator, search connection not configured:
\* _build_azure_ai_search_tool raises and the except clause runs
ComplianceToolRaise ==
    /\ pc = "compliance"
    /\ "raises" \in DOMAIN search_tool
    /\ workflow_results' = failed_results(workflow_results, search_tool.raises)
    /\ pc' = pc_after_failure("compliance")
    /\ outcome' = [kind |-> "raised", result |-> Unbound, error |-> search_tool.raises]
    /\ history' = history \o << StartEvent("compliance"), FailEvent("compliance") >>
    /\ UNCHANGED << config, state_steps, metadata, summary, compliance, risk_report,
                    sending >>

\* Step 3: the compliance model is called; the submission is suspended
ComplianceCall ==
    /\ pc = "compliance"
    /\ "raises" \notin DOMAIN search_tool
    /\ pc' = "await_compliance"
    /\ history' = Append(history, StartEvent("compliance"))
    /\ UNCHANGED << config, workflow_results, state_steps, metadata, summary,
                    compliance, risk_report, outcome, sending >>

compliance_report_of(v, text) ==
    CASE v = "agent"      -> agent_compliance_report(text)
      [] v = "sequential" -> executor_compliance_report(text)
      [] v = "foundry"    -> parse_compliance(text)

ComplianceReturn ==
    /\ pc = "await_compliance"
    /\ \E text \in AnalysisTexts :
          LET report == compliance_report_of(variant, text)
          IN  /\ compliance_analysis' = IF variant = "foundry" THEN Unbound
                                        ELSE analyze_proposal(text)
              /\ compliance_report' = report
              /\ RecordStep("compliance", [status |-> "completed", report |-> report])
    /\ history' = Append(history, RecordEvent("compliance"))
    /\ pc' = next_stage("compliance")
    /\ UNCHANGED << config, metadata, summary, risk_report, outcome, sending >>

ComplianceRaise ==
    /\ pc = "await_compliance"
    /\ Fail("compliance")
    /\ history' = Append(history, FailEvent("compliance"))
    /\ UNCHANGED << config, metadata, summary, compliance, risk_report, sending >>

\* the stage whose model call a suspended submission is waiting for
awaited_stage(at) ==
    CASE at = "await_summarization" -> "summarization"
      [] at = "await_compliance"    -> "compliance"

\* The task of a suspended submission is cancelled: the await raises
\* CancelledError, which is a BaseException and no Exception, so it passes the
\* `except Exception` clause of process_grant_proposal_async and reaches the
\* caller with workflow_results as it was.
Cancel ==
    /\ pc \in {"await_summarization", "await_compliance"}
    /\ pc' = "cancelled"
    /\ outcome' = [kind |-> "cancelled", result |-> Unbound, error |-> "CancelledError"]
    /\ history' = Append(history, CancelEvent(awaited_stage(pc)))
    /\ UNCHANGED << config, workflow_results, state_steps, metadata, summary,
                    compliance, risk_report, sending >>

\* Step 4: calculate_risk_score
RiskScoring ==
    /\ pc = "risk_scoring"
    /\ \E report \in calculate_risk_score(compliance_report, summary, metadata) :
          /\ risk_report' = report
          /\ RecordStep("risk_scoring", [status |-> "completed", report |-> report])
    /\ history' = history \o << StartEvent("risk_scoring"), RecordEvent("risk_scoring") >>
    /\ pc' = next_stage("risk_scoring")
    /\ UNCHANGED << config, metadata, summary, compliance, outcome, sending >>

\* the caller receives the final results
Return(steps, email_sent) ==
    LET results == final_results(variant, workflow_results, steps,
                                 compliance_report, risk_report, email_sent)
    IN  /\ IF variant = "sequential"
           THEN /\ state_steps' = steps
                /\ UNCHANGED workflow_results
           ELSE /\ workflow_results' = results
                /\ UNCHANGED state_steps
        /\ outcome' = [kind |-> "returned", result |-> results, error |-> ""]
        /\ pc' = "done"

\* Step 5, notification warranted and enabled: prepare_email, then send_email
\* starts
NotificationPrepare ==
    /\ pc = "notification"
    /\ should_notify(send_email, risk_report)
    /\ history' = Append(history, StartEvent("notification"))
    /\ pc' = "send_email"
    /\ UNCHANGED << config, workflow_results, state_steps, metadata, summary,
                    compliance, risk_report, outcome, sending >>

\* Step 5, otherwise: the step is recorded as skipped and the results returned
NotificationSkip ==
    /\ pc = "notification"
    /\ ~should_notify(send_email, risk_report)
    /\ history' = history \o << StartEvent("notification"), RecordEvent("notification") >>
    /\ Return(Put(steps_of(variant, workflow_results, state_steps),
                  "notification", skipped_step(risk_report)), FALSE)
    /\ UNCHANGED << config, metadata, summary, compliance, risk_report, sending >>

\* send_email: _send_via_graph_api is called and waits for the Graph API
CallGraphApi ==
    /\ pc = "send_email"
    /\ email_agent.use_graph_api
    /\ pc' = "in_graph_api"
    /\ UNCHANGED << config, workflow_results, state_steps, metadata, summary,
                    compliance, risk_report, outcome, history, sending >>

\* send_email: _send_via_graph_api returns its record or raises
SendViaGraphApi ==
    /\ pc = "in_graph_api"
    /\ \E response \in GraphApiResponses :
          LET ok == response = 202
          IN  /\ attempts' = Append(attempts, [method |-> "graph_api", ok |-> ok])
              /\ send_result' = IF ok THEN graph_api_result ELSE send_result
              /\ log' = IF ok THEN log
                        ELSE Append(log, warning("graph_api", graph_api_error(response)))
              /\ pc' = pc_after_graph_api(ok)
    /\ UNCHANGED << config, workflow_results, state_steps, metadata, summary,
                    compliance, risk_report, outcome, history >>

\* send_email has reached `if self.smtp_enabled and ...`
AtSmtpBranch ==
    \/ pc = "send_email" /\ ~email_agent.use_graph_api
    \/ pc = "graph_failed"

\* send_email: _send_via_smtp is called and opens the SMTP session
CallSmtp ==
    /\ AtSmtpBranch
    /\ smtp_usable(email_agent)
    /\ pc' = "in_smtp"
    /\ UNCHANGED << config, workflow_results, state_steps, metadata, summary,
                    compliance, risk_report, outcome, history, sending >>

\* send_email: _send_via_smtp returns its record or raises
SendViaSmtp ==
    /\ pc = "in_smtp"
    /\ \E smtp_outcome \in SmtpOutcomes :
          LET ok == smtp_outcome = "sent"
          IN  /\ attempts' = Append(attempts, [method |-> "smtp", ok |-> ok])
              /\ send_result' = IF ok THEN smtp_result ELSE send_result
              /\ log' = IF ok THEN log
                        ELSE Append(log, warning("smtp", smtp_error(smtp_outcome)))
              /\ pc' = pc_after_smtp(ok)
    /\ UNCHANGED << config, workflow_results, state_steps, metadata, summary,
                    compliance, risk_report, outcome, history >>

\* send_email: _simulate_email_send
SimulateEmailSend ==
    /\ \/ AtSmtpBranch /\ ~smtp_usable(email_agent)
       \/ pc = "smtp_failed"
    /\ attempts' = Append(attempts, [method |-> "demo", ok |-> TRUE])
    /\ send_result' = simulated_result
    /\ pc' = pc_after_simulation
    /\ UNCHANGED << config, workflow_results, state_steps, metadata, summary,
                    compliance, risk_report, outcome, history, log >>

\* send_email has returned: the step is recorded and the results returned
NotificationSent ==
    /\ pc = "send_returned"
    /\ history' = Append(history, RecordEvent("notification"))
    /\ Return(Put(steps_of(variant, workflow_results, state_steps), "notification",
                  [status |-> "completed", send_result |-> send_result]),
              TRUE)
    /\ UNCHANGED << config, metadata, summary, compliance, risk_report, sending >>

Next ==
    \/ Submit
    \/ Ingestion
    \/ SummarizationCall
    \/ SummarizationReturn
    \/ SummarizationRaise
    \/ ComplianceToolRaise
    \/ ComplianceCall
    \/ ComplianceReturn
    \/ ComplianceRaise
    \/ Cancel
    \/ RiskScoring
    \/ NotificationPrepare
    \/ NotificationSkip
    \/ CallGraphApi
    \/ SendViaGraphApi
    \/ CallSmtp
    \/ SendViaSmtp
    \/ SimulateEmailSend
    \/ NotificationSent

Spec == Init /\ [][Next]_vars

----------------------------------------------------------------------------
(* The scoring engine on its own: calculate_risk_score applied to every    *)
(* valid input                                                             *)

ValidScores == 0..100

ValidComplianceReports ==
    { [ compliance_score |-> c,
        overall_status   |-> LIT_requires_review,
        confidence_score |-> k,
        violations       |-> << >>,
        warnings         |-> << >>,
        relevant_executive_orders |-> Items(e) ] :
      c \in ValidScores, k \in ValidScores, e \in 0..MaxEOs }

InitScore ==
    /\ variant = "agent"
    /\ send_email = FALSE
    /\ email_agent = EmailTriggerAgent_init(FALSE, CHOOSE env \in Environments :
                                                   ~env.smtp.SMTP_ENABLED /\ env.AZURE_CLIENT_ID = "")
    /\ pc = "scoring"
    /\ workflow_results = Unbound
    /\ state_steps = << >>
    /\ metadata = Unbound
    /\ summary = Unbound
    /\ compliance_report = Unbound
    /\ risk_report = Unbound
    /\ outcome = [kind |-> "pending", result |-> Unbound, error |-> ""]
    /\ history = << >>
    /\ attempts = << >>
    /\ send_result = Unbound
    /\ compliance_analysis = Unbound
    /\ log = << >>
    /\ search_connection_id = Unbound
    /\ IngestionIdle
    /\ extraction = Unbound
    /\ should_send = Unbound
    /\ variant_results = Unbound
    /\ ConcurrencyIdle
    /\ webhook = Unbound
    /\ upload = Unbound

CalculateRiskScore ==
    /\ pc = "scoring"
    /\ \E cr \in ValidComplianceReports, s \in Summaries, m \in Documents :
          /\ compliance_report' = cr
          /\ UNCHANGED compliance_analysis
          /\ summary' = s
          /\ metadata' = m
          /\ risk_report' \in calculate_risk_score(cr, s, m)
    /\ pc' = "scored"
    /\ UNCHANGED << config, workflow_results, state_steps, outcome, history, sending >>

\* should_send_email is asked about the report
ShouldSendEmail ==
    /\ pc = "scored"
    /\ should_send' = should_send_email(risk_report)
    /\ pc' = "decided"
    /\ UNCHANGED << variant, send_email, email_agent, search_connection_id,
                    document_agent, file, document_data, extraction,
                    variant_results, submissions, cached_agent, threads, webhook,
                    upload, workflow_results, state_steps, metadata, summary,
                    compliance, risk_report, outcome, history, sending >>

NextScore ==
    \/ CalculateRiskScore
    \/ ShouldSendEmail

SpecScore == InitScore /\ [][NextScore]_vars

----------------------------------------------------------------------------
(* The extraction service on its own: process_document and                 *)
(* extract_metadata applied to every file and agent configuration          *)

InitIngest ==
    /\ variant = "agent"
    /\ send_email = FALSE
    /\ email_agent = EmailTriggerAgent_init(FALSE, CHOOSE env \in Environments :
                                                   ~env.smtp.SMTP_ENABLED /\ env.AZURE_CLIENT_ID = "")
    /\ pc = "process_document"
    /\ workflow_results = Unbound
    /\ state_steps = << >>
    /\ metadata = Unbound
    /\ summary = Unbound
    /\ compliance_report = Unbound
    /\ risk_report = Unbound
    /\ outcome = [kind |-> "pending", result |-> Unbound, error |-> ""]
    /\ history = << >>
    /\ attempts = << >>
    /\ send_result = Unbound
    /\ compliance_analysis = Unbound
    /\ log = << >>
    /\ search_connection_id = Unbound
    /\ document_agent \in { DocumentIngestionAgent_init(a, env) :
                            a \in BOOLEAN, env \in IngestionEnvironments }
    /\ file \in Files
    /\ document_data = Unbound
    /\ extraction = Unbound
    /\ should_send = Unbound
    /\ variant_results = Unbound
    /\ ConcurrencyIdle
    /\ webhook = Unbound
    /\ upload = Unbound

\* what the extraction service leaves alone
not_ingestion == << variant, send_email, email_agent, workflow_results, state_steps,
                   summary, compliance, risk_report, outcome, sending,
                   search_connection_id, document_agent, file, extraction,
                   standalone >>

\* a channel of the extraction service has produced the text, or has failed
ChannelEvent(channel, ok) == [ev |-> "channel", channel |-> channel, ok |-> ok]

\* process_document up to the choice of the extractor
ProcessDocument ==
    /\ pc = "process_document"
    /\ IF ~file.exists
       THEN /\ document_data' = [raises |-> "FileNotFoundError"]
            /\ pc' = "ingestion_raised"
       ELSE /\ document_data' = document_data
            /\ pc' = IF document_agent.use_azure THEN "process_with_azure"
                     ELSE "process_locally"
    /\ UNCHANGED << not_ingestion, metadata, history >>

\* _process_with_azure: the analysis succeeds, or it fails (always, without
\* endpoint and key) and the except clause goes on to _process_locally
ProcessWithAzure ==
    /\ pc = "process_with_azure"
    /\ \E ok \in IF azure_credentials(document_agent) THEN BOOLEAN ELSE { FALSE } :
          /\ history' = Append(history, ChannelEvent("azure", ok))
          /\ IF ok
             THEN /\ document_data' = with_metadata(azure_result(file), document_agent,
                                                    suffix_lower(file.suffix))
                  /\ pc' = "process_document_returned"
             ELSE /\ document_data' = document_data
                  /\ pc' = "process_locally"
    /\ UNCHANGED << not_ingestion, metadata >>

\* _process_locally, and the rest of process_document after it
ProcessLocally ==
    /\ pc = "process_locally"
    /\ \E result \in process_locally(file, suffix_lower(file.suffix)) :
          IF "raises" \in DOMAIN result
          THEN /\ history' = Append(history, ChannelEvent("local", FALSE))
               /\ document_data' = result
               /\ pc' = "ingestion_raised"
          ELSE /\ history' = Append(history, ChannelEvent("local", TRUE))
               /\ document_data' = with_metadata(result, document_agent,
                                                 suffix_lower(file.suffix))
               /\ pc' = "process_document_returned"
    /\ UNCHANGED << not_ingestion, metadata >>

\* extract_metadata on the document data returned
ExtractMetadata ==
    /\ pc = "process_document_returned"
    /\ metadata' = extract_metadata(document_data)
    /\ pc' = "ingested"
    /\ UNCHANGED << not_ingestion, document_data, history >>

NextIngest ==
    \/ ProcessDocument
    \/ ProcessWithAzure
    \/ ProcessLocally
    \/ ExtractMetadata

SpecIngest == InitIngest /\ [][NextIngest]_vars

----------------------------------------------------------------------------
(* The heuristic extractor on its own: status and confidence score         *)
(* extracted from every analysis text by each class that carries the code  *)

Extractors == { "ComplianceAgent", "ComplianceAgentFoundry",
                "SequentialWorkflowOrchestratorFoundry" }

\* the integers found after a "confidence score" marker, now also outside 0..100
ExtractorConfidenceMatches ==
    ConfidenceMatches \cup { << 0 >>, << 101 >>, << 150, 55 >>, << 55, 150 >> }

ExtractorTexts ==
    { [phrases |-> ph, confidence |-> c, eos |-> e] :
      ph \in SeqsUpTo(Phrases, MaxPhrases), c \in ExtractorConfidenceMatches,
      e \in { << >>, << 14151 >> } }

\* ComplianceAgentFoundry._extract_confidence_score
foundry_extract_confidence_score(text) ==
    IF text.confidence /= << >> THEN Min(100, Max(0, Head(text.confidence))) ELSE 70

\* status and confidence score as extractor e extracts them from text
extract(e, text) ==
    CASE e = "ComplianceAgent" ->
             [ status           |-> extract_status(text),
               confidence_score |-> extract_confidence_score(text) ]
      [] e = "ComplianceAgentFoundry" ->
             [ status           |-> extract_status(text),
               confidence_score |-> foundry_extract_confidence_score(text) ]
      [] e = "SequentialWorkflowOrchestratorFoundry" ->
             [ status           |-> parse_compliance(text).overall_status,
               confidence_score |-> parse_compliance(text).confidence_score ]

InitExtract ==
    /\ variant = "agent"
    /\ send_email = FALSE
    /\ email_agent = EmailTriggerAgent_init(FALSE, CHOOSE env \in Environments :
                                                   ~env.smtp.SMTP_ENABLED /\ env.AZURE_CLIENT_ID = "")
    /\ pc = "extract"
    /\ workflow_results = Unbound
    /\ state_steps = << >>
    /\ metadata = Unbound
    /\ summary = Unbound
    /\ compliance_report = Unbound
    /\ risk_report = Unbound
    /\ outcome = [kind |-> "pending", result |-> Unbound, error |-> ""]
    /\ history = << >>
    /\ attempts = << >>
    /\ send_result = Unbound
    /\ compliance_analysis = Unbound
    /\ log = << >>
    /\ search_connection_id = Unbound
    /\ IngestionIdle
    /\ extraction \in { [extractor |-> e, text |-> t] :
                        e \in Extractors, t \in ExtractorTexts }
    /\ should_send = Unbound
    /\ variant_results = Unbound
    /\ ConcurrencyIdle
    /\ webhook = Unbound
    /\ upload = Unbound

Extract ==
    /\ pc = "extract"
    /\ extraction' = extract(extraction.extractor, extraction.text) @@ extraction
    /\ pc' = "extracted"
    /\ UNCHANGED << variant, send_email, email_agent, workflow_results, state_steps,
                    metadata, summary, compliance, risk_report, outcome, history,
                    sending, search_connection_id, document_agent, file,
                    document_data, standalone >>

NextExtract == Extract

SpecExtract == InitExtract /\ [][NextExtract]_vars

----------------------------------------------------------------------------
(* The three orchestrator classes on one and the same document: steps 3 to *)
(* 5 of each, from the same extraction result, summary and analysis text   *)

\* what an orchestrator class makes of the analysis text: its compliance
\* report, the risk report, whether the notification step sends, and the
\* overall status
run_variant(v, text, s, m, enabled) ==
    LET cr == compliance_report_of(v, text)
    IN  { [ compliance_report |-> cr,
            risk_report       |-> rr,
            notified          |-> should_notify(enabled, rr),
            overall_status    |-> determine_overall_status(cr, rr) ] :
          rr \in calculate_risk_score(cr, s, m) }

InitVariants ==
    /\ variant = "agent"
    /\ send_email \in BOOLEAN
    /\ email_agent = EmailTriggerAgent_init(FALSE, CHOOSE env \in Environments :
                                                   ~env.smtp.SMTP_ENABLED /\ env.AZURE_CLIENT_ID = "")
    /\ pc = "variants"
    /\ workflow_results = Unbound
    /\ state_steps = << >>
    /\ metadata \in Documents
    /\ summary \in Summaries
    /\ compliance_report = Unbound
    /\ risk_report = Unbound
    /\ outcome = [kind |-> "pending", result |-> Unbound, error |-> ""]
    /\ history = << >>
    /\ attempts = << >>
    /\ send_result = Unbound
    /\ compliance_analysis = Unbound
    /\ log = << >>
    /\ search_connection_id = Unbound
    /\ IngestionIdle
    /\ extraction = Unbound
    /\ should_send = Unbound
    /\ variant_results \in { [text |-> t, results |-> << >>] : t \in AnalysisTexts }
    /\ ConcurrencyIdle
    /\ webhook = Unbound
    /\ upload = Unbound

\* the orchestrator class v processes the document
RunVariant(v) ==
    /\ pc = "variants"
    /\ v \notin DOMAIN variant_results.results
    /\ \E result \in run_variant(v, variant_results.text, summary, metadata, send_email) :
          variant_results' = [variant_results EXCEPT !.results = Put(@, v, result)]
    /\ UNCHANGED << variant, send_email, email_agent, search_connection_id,
                    document_agent, file, document_data, extraction, should_send,
                    submissions, cached_agent, threads, webhook, upload, pc,
                    workflow_results, state_steps, metadata, summary, compliance,
                    risk_report, outcome, history, sending >>

NextVariants == \E v \in Variants : RunVariant(v)

SpecVariants == InitVariants /\ [][NextVariants]_vars

----------------------------------------------------------------------------
(* Concurrent submissions to one orchestrator: each call of                *)
(* process_grant_proposal_async has its own workflow_results; the          *)
(* ComplianceAgent of the orchestrator, with its cached agent, is shared   *)

\* the pipeline itself is not running
PipelineIdle ==
    /\ variant = "agent"
    /\ send_email = FALSE
    /\ email_agent = EmailTriggerAgent_init(FALSE, CHOOSE env \in Environments :
                                                   ~env.smtp.SMTP_ENABLED /\ env.AZURE_CLIENT_ID = "")
    /\ workflow_results = Unbound
    /\ state_steps = << >>
    /\ metadata = Unbound
    /\ summary = Unbound
    /\ compliance_report = Unbound
    /\ risk_report = Unbound
    /\ outcome = [kind |-> "pending", result |-> Unbound, error |-> ""]
    /\ history = << >>
    /\ attempts = << >>
    /\ send_result = Unbound
    /\ compliance_analysis = Unbound
    /\ log = << >>
    /\ search_connection_id = Unbound
    /\ IngestionIdle
    /\ extraction = Unbound
    /\ should_send = Unbound
    /\ variant_results = Unbound

pipeline == << variant, send_email, email_agent, workflow_results, state_steps,
              metadata, summary, compliance, risk_report, outcome, history,
              sending, search_connection_id, document_agent, file, document_data,
              extraction, should_send, variant_results >>

\* largest number of submissions in flight on one orchestrator
MaxSubmissions == 2

Submitters == 1..MaxSubmissions

\* the proposal texts handed in
Proposals == { "proposal A", "proposal B" }

\* agent.get_new_thread() that hands out the one thread the agent keeps
get_new_thread_reused(ths) == Min(1, Len(ths) + 1)

\* agent.get_new_thread(): a thread no one else has
get_new_thread(ths) == Len(ths) + 1

\* the messages of thread t after prompt has been sent on it
send_prompt(ths, t, prompt) ==
    IF t \in DOMAIN ths THEN [ths EXCEPT ![t] = Append(@, prompt)]
    ELSE Append(ths, << prompt >>)

\* what the model answers on a thread is determined by the messages of the
\* thread
response_text(ths, t) == [answers |-> ths[t]]

InitConcurrent ==
    /\ PipelineIdle
    /\ pc = "concurrent"
    /\ submissions \in [Submitters -> { [at |-> "pending", proposal_text |-> p,
                                        workflow_results |-> Unbound,
                                        agent |-> Unbound, thread |-> 0] :
                                      p \in Proposals }]
    /\ cached_agent = [none |-> TRUE]
    /\ threads = << >>
    /\ webhook = Unbound
    /\ upload = Unbound

not_concurrent == << pipeline, pc, webhook, upload >>

\* process_grant_proposal_async is called for submission i: its own
\* workflow_results is created, and steps 1 and 2 run
SubmitConcurrently(i) ==
    /\ submissions[i].at = "pending"
    /\ submissions' = [submissions EXCEPT
            ![i].workflow_results = [status |-> "in_progress", steps |-> << >>],
            ![i].at = "create_agent"]
    /\ UNCHANGED << cached_agent, threads, not_concurrent >>

\* create_agent: `if self._agent is not None: return self._agent`
ReadCachedAgent(i) ==
    /\ submissions[i].at = "create_agent"
    /\ submissions' = IF cached_agent # [none |-> TRUE]
                      THEN [submissions EXCEPT ![i].agent = cached_agent,
                                               ![i].at = "get_new_thread"]
                      ELSE [submissions EXCEPT ![i].at = "new_agent"]
    /\ UNCHANGED << cached_agent, threads, not_concurrent >>

\* create_agent: `self._agent = ChatAgent(...)` and `return self._agent`
CreateAgent(i) ==
    /\ submissions[i].at = "new_agent"
    /\ cached_agent' = [created_by |-> i]
    /\ submissions' = [submissions EXCEPT ![i].agent = [created_by |-> i],
                                          ![i].at = "get_new_thread"]
    /\ UNCHANGED << threads, not_concurrent >>

\* analyze_proposal: a thread for this analysis, and the prompt is sent on it;
\* the submission is suspended until the model has answered
RunOnThread(i) ==
    /\ submissions[i].at = "get_new_thread"
    /\ LET t == get_new_thread(threads)
       IN  /\ threads' = send_prompt(threads, t, submissions[i].proposal_text)
           /\ submissions' = [submissions EXCEPT ![i].thread = t,
                                                 ![i].at = "await_compliance"]
    /\ UNCHANGED << cached_agent, not_concurrent >>

\* the model has answered: the analysis is recorded in the submission's own
\* workflow_results and the results are returned
CompleteConcurrently(i) ==
    /\ submissions[i].at = "await_compliance"
    /\ submissions' = [submissions EXCEPT
            ![i].workflow_results =
                [status |-> "completed",
                 steps  |-> Put(@.steps, "compliance",
                                [status   |-> "completed",
                                 analysis |-> response_text(threads, submissions[i].thread)])],
            ![i].at = "done"]
    /\ UNCHANGED << cached_agent, threads, not_concurrent >>

NextConcurrent ==
    \E i \in Submitters :
        \/ SubmitConcurrently(i)
        \/ ReadCachedAgent(i)
        \/ CreateAgent(i)
        \/ RunOnThread(i)
        \/ CompleteConcurrently(i)

SpecConcurrent == InitConcurrent /\ [][NextConcurrent]_vars

----------------------------------------------------------------------------
(* The SharePoint webhook handler *)

\* largest number of notifications in one webhook request
MaxNotifications == 3

\* os.getenv('WEBHOOK_CLIENT_STATE', '')
ExpectedStates == { "", "secret" }

\* notification.get('clientState', '')
ClientStates == { "", "secret", "forged" }

\* what the request carries: a validation token, a body that is no JSON, a
\* body without 'value', or notifications
WebhookRequests ==
    { [validationtoken |-> "token", body |-> [raises |-> "ValueError"]] }
    \cup { [validationtoken |-> "", body |-> b] :
           b \in { [raises |-> "ValueError"], [other |-> "x"] } }
    \cup { [validationtoken |-> "", body |-> [value |-> n]] :
           n \in SeqsUpTo(ClientStates, MaxNotifications) }

HttpResponse(body, status_code) == [body |-> body, status_code |-> status_code]

InitWebhook ==
    /\ PipelineIdle
    /\ ConcurrencyIdle
    /\ pc = "webhook_received"
    /\ webhook \in { [req |-> r, expected_state |-> e, storage |-> st, i |-> 1,
                      processed_count |-> 0, queue |-> << >>, response |-> Unbound] :
                     r \in WebhookRequests, e \in ExpectedStates, st \in BOOLEAN }
    /\ upload = Unbound

not_webhook == << pipeline, submissions, cached_agent, threads, upload >>

\* lines 30-53: a validation request is echoed, a payload without 'value' is
\* answered 400, a body that is no JSON raises into the except clause
ReceiveNotifications ==
    /\ pc = "webhook_received"
    /\ IF webhook.req.validationtoken # ""
       THEN /\ webhook' = [webhook EXCEPT !.response = HttpResponse("token", 200)]
            /\ pc' = "webhook_responded"
       ELSE IF "raises" \in DOMAIN webhook.req.body
       THEN /\ webhook' = [webhook EXCEPT !.response = HttpResponse("error", 500)]
            /\ pc' = "webhook_responded"
       ELSE IF "value" \notin DOMAIN webhook.req.body
       THEN /\ webhook' = [webhook EXCEPT !.response = HttpResponse("Invalid payload", 400)]
            /\ pc' = "webhook_responded"
       ELSE /\ pc' = "webhook_loop"
            /\ UNCHANGED webhook
    /\ UNCHANGED not_webhook

\* lines 54-82: the next notification, which the request models by its client
\* state: it is compared with the expected one, and queue_document_processing
\* is called for it
VerifyClientState ==
    /\ pc = "webhook_loop"
    /\ webhook.i <= Len(webhook.req.body.value)
    /\ IF webhook.req.body.value[webhook.i] # webhook.expected_state
       THEN /\ webhook' = [webhook EXCEPT
                               !.response = HttpResponse("Invalid client state", 401)]
            /\ pc' = "webhook_responded"
       ELSE /\ pc' = "webhook_queueing"
            /\ UNCHANGED webhook
    /\ UNCHANGED not_webhook

\* queue_document_processing: the message is sent to the queue, or the
\* missing connection string or the queue service raises, which the handler
\* answers with 500
QueueDocumentProcessing ==
    /\ pc = "webhook_queueing"
    /\ \/ /\ webhook.storage
          /\ webhook' = [webhook EXCEPT !.queue = Append(@, webhook.i),
                                        !.processed_count = @ + 1,
                                        !.i = @ + 1]
          /\ pc' = "webhook_loop"
       \/ /\ webhook' = [webhook EXCEPT !.response = HttpResponse("error", 500)]
          /\ pc' = "webhook_responded"
    /\ UNCHANGED not_webhook

\* lines 86-96: all notifications are queued
RespondAccepted ==
    /\ pc = "webhook_loop"
    /\ webhook.i > Len(webhook.req.body.value)
    /\ webhook' = [webhook EXCEPT
                       !.response = HttpResponse([status |-> "accepted",
                                                  processed |-> webhook.processed_count],
                                                 200)]
    /\ pc' = "webhook_responded"
    /\ UNCHANGED not_webhook

NextWebhook ==
    \/ ReceiveNotifications
    \/ VerifyClientState
    \/ QueueDocumentProcessing
    \/ RespondAccepted

SpecWebhook == InitWebhook /\ [][NextWebhook]_vars

----------------------------------------------------------------------------
(* POST /api/process/upload *)

\* Path(file.filename or '').suffix of the uploaded file
UploadSuffixes == Suffixes \cup { ".pdf", "" }

\* str.lower() on the suffix of an upload
upload_suffix_lower(suffix) == IF suffix = "" THEN "" ELSE suffix_lower(suffix)

allowed_extensions == << ".pdf", ".docx", ".txt" >>

\* the two versions of backend/main.py
Mains == { "backend/main.py", "src/backend/main.py" }

\* ORCHESTRATOR_TYPE and AGENT_SERVICE of src/backend/main.py; the other
\* version has neither
OrchestratorTypes == { "sequential", "legacy" }
AgentServices == { "foundry", "agent-framework" }

\* the orchestrator class the endpoint creates
orchestrator_of(u) ==
    IF u.main = "backend/main.py" THEN "agent"
    ELSE IF u.orchestrator_type = "sequential"
    THEN IF u.agent_service = "foundry" THEN "foundry" ELSE "sequential"
    ELSE "agent"

HTTPException(status_code, detail) == [status_code |-> status_code, detail |-> detail]

\* `except Exception as e: raise HTTPException(status_code=500, detail=str(e))`
except_clause(e) == HTTPException(500, e)

InitUpload ==
    /\ PipelineIdle
    /\ ConcurrencyIdle
    /\ webhook = Unbound
    /\ pc = "upload_received"
    /\ upload \in { [main |-> m, suffix |-> sfx, send_email |-> se, use_azure |-> az,
                     orchestrator_type |-> ot, agent_service |-> ags,
                     tmp_file |-> FALSE, orchestrator |-> Unbound,
                     response |-> Unbound] :
                    m \in Mains, sfx \in UploadSuffixes, se \in BOOLEAN,
                    az \in BOOLEAN, ot \in OrchestratorTypes \cup {"unset"},
                    ags \in AgentServices \cup {"unset"} }
    /\ (upload.orchestrator_type = "unset") = (upload.main = "backend/main.py")
    /\ (upload.agent_service = "unset") = (upload.main = "backend/main.py")

not_upload == << pipeline, submissions, cached_agent, threads, webhook >>

\* the file type is validated; a valid upload is read
ValidateFileType ==
    /\ pc = "upload_received"
    /\ IF \A i \in DOMAIN allowed_extensions :
              upload_suffix_lower(upload.suffix) # allowed_extensions[i]
       THEN /\ upload' = [upload EXCEPT
                  !.response = except_clause(HTTPException(400, "Invalid file type"))]
            /\ pc' = "upload_responded"
       ELSE /\ pc' = "upload_read"
            /\ UNCHANGED upload
    /\ UNCHANGED not_upload

\* the content is saved to a temporary file, the orchestrator is created and
\* the submission handed to it
SaveAndSubmit ==
    /\ pc = "upload_read"
    /\ upload' = [upload EXCEPT !.tmp_file = TRUE,
                                !.orchestrator = orchestrator_of(upload)]
    /\ pc' = "upload_processing"
    /\ UNCHANGED not_upload

\* the orchestrator returns, the temporary file is deleted and the results
\* are the response; or it raises, which is answered with 500
ProcessingDone ==
    /\ pc = "upload_processing"
    /\ \/ upload' = [upload EXCEPT !.tmp_file = FALSE,
                                   !.response = [status_code |-> 200,
                                                 content |-> "completed"]]
       \/ upload' = [upload EXCEPT
                        !.response = except_clause("processing failed")]
    /\ pc' = "upload_responded"
    /\ UNCHANGED not_upload

NextUpload ==
    \/ ValidateFileType
    \/ SaveAndSubmit
    \/ ProcessingDone

SpecUpload == InitUpload /\ [][NextUpload]_vars

----------------------------------------------------------------------------
(* Risk assessment *)

RiskLevels == {"low", "medium", "medium-high", "high"}

HasRiskReport == risk_report /= Unbound

\* C4: in every risk report, requires_notification is true exactly when the
\* overall_score of that report is below 75.
C4_NotificationIffReportedScoreBelow75 ==
    HasRiskReport =>
        (risk_report.requires_notification
            <=> risk_report.overall_score < MEDIUM_RISK_THRESHOLD * 100)

\* C5: for valid inputs the overall_score of the report lies in [0,100] and the
\* report carries one of the four risk levels.
C5_ScoreInRangeAndLevelTotal ==
    HasRiskReport =>
        /\ risk_report.overall_score >= 0
        /\ risk_report.overall_score <= 100 * 100
        /\ risk_report.risk_level \in RiskLevels

\* a report at the top of the range, and one in the lowest level
C5_Witness ==
    /\ HasRiskReport
    /\ risk_report.overall_score = 100 * 100
    /\ risk_report.risk_level = "low"
    /\ compliance_report.compliance_score = 100
    /\ compliance_report.confidence_score = 100

\* the level the partition assigns to a reported score, in hundredths
partition_level(reported) ==
    IF reported >= 90 * 100 THEN "low"
    ELSE IF reported >= 75 * 100 THEN "medium"
    ELSE IF reported >= 60 * 100 THEN "medium-high"
    ELSE "high"

\* C6: the risk_level of a report is the one the partition 90 / 75 / 60
\* assigns to the overall_score of that report.
C6_LevelIsPartitionOfReportedScore ==
    HasRiskReport =>
        risk_report.risk_level = partition_level(risk_report.overall_score)

----------------------------------------------------------------------------
(* Stage order *)

\* C1: the stages run in the order extraction, summarization, compliance
\* analysis, risk scoring, notification: whenever a stage starts, exactly the
\* earlier stages have recorded their results, and the results the stage
\* reads are among them.
C1_StagesRunInFixedOrder ==
    \A i \in DOMAIN history :
        history[i].ev = "start" =>
            /\ history[i].recorded = EarlierStages(history[i].stage)
            /\ history[i].reads \subseteq history[i].recorded

\* all five stages have run and the results are returned
C1_Witness ==
    /\ pc = "done"
    /\ { history[i].stage : i \in { k \in DOMAIN history : history[k].ev = "start" } }
         = { Stages[i] : i \in DOMAIN Stages }
    /\ Recorded = { Stages[i] : i \in DOMAIN Stages }

HasFailed == \E i \in DOMAIN history : history[i].ev = "fail"

\* C2: when a stage fails, the submission is failed and the caller receives,
\* with the error, a partial result holding the output of every stage that
\* completed before the failure.
C2_CallerReceivesPartialResult ==
    outcome.kind = "raised" =>
        /\ workflow_results.status = "failed"
        /\ outcome.error /= ""
        /\ outcome.result /= Unbound
        /\ \A s \in Recorded : s \in DOMAIN outcome.result.steps

\* C3: once a stage has failed nothing further happens in the submission: the
\* failure is its last event, no channel is invoked, its status is failed and
\* the caller gets no completed result; and a completed submission has no
\* failure.
C3_FailedIsTerminal ==
    /\ \A i \in DOMAIN history :
           history[i].ev = "fail" =>
               /\ i = Len(history)
               /\ pc = "failed"
               /\ workflow_results.status = "failed"
               /\ outcome.kind = "raised"
               /\ attempts = << >>
    /\ outcome.kind = "returned" => (pc = "done" /\ ~HasFailed)

\* compliance analysis has failed after two stages completed, with
\* notification enabled
C3_Witness ==
    /\ pc = "failed"
    /\ send_email
    /\ history[Len(history)] = [ev |-> "fail", stage |-> "compliance",
                                recorded |-> {"ingestion", "summarization"},
                                reads |-> {}]

----------------------------------------------------------------------------
(* Overall status *)

\* the status extracted from the analysis text is Non-Compliant
ExtractedNonCompliant ==
    IF variant = "foundry" THEN compliance_report.overall_status = LIT_non_compliant
    ELSE compliance_analysis.status = STATUS_NonCompliant

\* C7: the overall_status of a completed submission is requires_legal_review
\* when the level is high or the extracted status is Non-Compliant, else
\* requires_review when the level is medium or medium-high, else
\* approved_with_conditions.
C7_OverallStatusFollowsLevelAndStatus ==
    outcome.kind = "returned" =>
        outcome.result.overall_status =
            IF risk_report.risk_level = "high" \/ ExtractedNonCompliant
            THEN "requires_legal_review"
            ELSE IF risk_report.risk_level \in {"medium", "medium-high"}
            THEN "requires_review"
            ELSE "approved_with_conditions"

----------------------------------------------------------------------------
(* Notification *)

\* C8: a message is sent exactly when notification is enabled and the risk
\* report requires it; otherwise no channel is invoked and the step is
\* skipped, with reason Disabled when it was required and Not required when
\* it was not.
C8_NotificationExactlyWhenEnabledAndRequired ==
    /\ attempts /= << >> => (send_email /\ risk_report.requires_notification)
    /\ outcome.kind = "returned" =>
           LET step == outcome.result.steps["notification"]
           IN  IF send_email /\ risk_report.requires_notification
               THEN /\ step.status = "completed"
                    /\ attempts /= << >>
                    /\ outcome.result.email_sent
               ELSE /\ step.status = "skipped"
                    /\ attempts = << >>
                    /\ ~outcome.result.email_sent
                    /\ step.reason = IF risk_report.requires_notification
                                     THEN "Disabled" ELSE "Not required"

\* a required and enabled notification has been sent
C8_Witness ==
    /\ outcome.kind = "returned"
    /\ send_email
    /\ risk_report.requires_notification
    /\ outcome.result.steps["notification"].status = "completed"

GraphFailed(i) == attempts[i] = [method |-> "graph_api", ok |-> FALSE]
SmtpFailed(i)  == attempts[i] = [method |-> "smtp", ok |-> FALSE]

\* C9: if in one send call the Graph API fails and SMTP succeeds, the record
\* returned names smtp and the Graph API was invoked once.
C9_SmtpFallbackIsNamed ==
    (\E i, j \in DOMAIN attempts :
        /\ GraphFailed(i)
        /\ attempts[j] = [method |-> "smtp", ok |-> TRUE])
    => /\ send_result.method = "smtp"
       /\ Cardinality({ k \in DOMAIN attempts : attempts[k].method = "graph_api" }) = 1
       /\ outcome.kind = "returned" =>
              outcome.result.steps["notification"].send_result.method = "smtp"

\* the Graph API failed, SMTP delivered, and the results are returned
C9_Witness ==
    /\ outcome.kind = "returned"
    /\ attempts = << [method |-> "graph_api", ok |-> FALSE],
                     [method |-> "smtp", ok |-> TRUE] >>

ChannelRank(method) ==
    CASE method = "graph_api" -> 1
      [] method = "smtp"      -> 2
      [] method = "demo"      -> 3

\* C10: the channels are attempted in the order Graph API, SMTP, simulation,
\* stopping at the first success; a channel is attempted only if every
\* earlier channel was not configured or was attempted and failed.
C10_ChannelsInOrderUntilFirstSuccess ==
    \A i \in DOMAIN attempts :
        /\ \A j \in DOMAIN attempts :
               i < j => ChannelRank(attempts[i].method) < ChannelRank(attempts[j].method)
        /\ attempts[i].ok => i = Len(attempts)
        /\ attempts[i].method \in {"smtp", "demo"} =>
               \/ ~email_agent.use_graph_api
               \/ \E j \in 1..(i - 1) : GraphFailed(j)
        /\ attempts[i].method = "demo" =>
               \/ ~(/\ email_agent.smtp_enabled
                    /\ email_agent.smtp_username /= ""
                    /\ email_agent.smtp_password /= "")
               \/ \E j \in 1..(i - 1) : SmtpFailed(j)

\* both real channels failed and the simulation was used
C10_Witness ==
    attempts = << [method |-> "graph_api", ok |-> FALSE],
                  [method |-> "smtp", ok |-> FALSE],
                  [method |-> "demo", ok |-> TRUE] >>

----------------------------------------------------------------------------
(* The send call *)

\* C11: send_email never raises: once a channel has been invoked the
\* submission does not fail, after a failed channel a later one is always
\* there to be tried, the simulation ends the call with its record, the call
\* returns a delivery record, and the submission completes.
C11_SendEmailAlwaysReturnsRecord ==
    /\ attempts /= << >> => (pc /= "failed" /\ outcome.kind /= "raised")
    /\ pc \in {"graph_failed", "smtp_failed"} => ENABLED (CallSmtp \/ SimulateEmailSend)
    /\ (\E i \in DOMAIN attempts : attempts[i].method = "demo") =>
           (pc \in {"send_returned", "done"} /\ send_result = simulated_result)
    /\ pc = "send_returned" =>
           send_result \in {graph_api_result, smtp_result, simulated_result}
    /\ (pc = "done" /\ attempts /= << >>) =>
           /\ outcome.kind = "returned"
           /\ outcome.result.status = "completed"
           /\ outcome.result.steps["notification"].send_result = send_result

\* the Graph API and SMTP both failed and the submission completed with the
\* record of the simulation
C11_Witness ==
    /\ outcome.kind = "returned"
    /\ outcome.result.status = "completed"
    /\ Len(log) = 2
    /\ outcome.result.steps["notification"].send_result = simulated_result

\* the channel send_email is waiting for
InFlight ==
    CASE pc = "in_graph_api" -> {"graph_api"}
      [] pc = "in_smtp"      -> {"smtp"}
      [] OTHER               -> {}

\* C12: within one send call a channel is invoked only when every channel
\* invoked before it has finished and failed, no channel is invoked twice,
\* and at most one channel delivers the message.
C12_OneChannelAtATimeOneDelivery ==
    /\ \A m \in InFlight :
           \A i \in DOMAIN attempts : ~attempts[i].ok /\ attempts[i].method /= m
    /\ \A i, j \in DOMAIN attempts : attempts[i].method = attempts[j].method => i = j
    /\ Cardinality({ i \in DOMAIN attempts : attempts[i].ok }) <= 1

\* SMTP is being tried after the Graph API has failed
C12_Witness ==
    /\ pc = "in_smtp"
    /\ attempts = << [method |-> "graph_api", ok |-> FALSE] >>

\* the errors raised for a dependency that is not configured
NotConfiguredErrors == { build_azure_ai_search_tool("").raises }

\* C13: a dependency that is not configured is never surfaced to the caller
\* as an error: no submission fails with the error of a missing
\* configuration, and a channel that is not configured is passed over.
C13_UnconfiguredDependencyNeverSurfaced ==
    /\ outcome.kind = "raised" => outcome.error \notin NotConfiguredErrors
    /\ ~email_agent.use_graph_api =>
           \A i \in DOMAIN attempts : attempts[i].method /= "graph_api"

\* the errors of a channel that refuses the credentials
PermissionErrors ==
    { graph_api_error(401), graph_api_error(403), smtp_error("SMTPAuthenticationError") }

\* C14: when a channel has failed with a permission error, a later channel is
\* tried and the record the send call returns records the failure of the
\* earlier channel.
C14_PermissionFailureRecordedInAuditRecord ==
    \A k \in DOMAIN log :
        (log[k].error \in PermissionErrors /\ pc \in {"send_returned", "done"}) =>
            /\ Len(attempts) > k
            /\ \E f \in DOMAIN send_result :
                   send_result[f] \in {log[k].channel, log[k].error}

----------------------------------------------------------------------------
(* Extraction *)

ExtractionReturned == pc \in {"process_document_returned", "ingested"}

\* C15: the processing_method of a successful extraction result names the
\* channel that produced the text: local when _process_locally did, also
\* after the Azure extractor failed, and azure only when the Azure extractor
\* did.
C15_ProcessingMethodNamesProducingChannel ==
    ExtractionReturned =>
        /\ history[Len(history)].ok
        /\ document_data.metadata.processing_method = history[Len(history)].channel

\* the formats DocumentIngestionAgent supports
SupportedFormats == { ".txt", ".pdf", ".docx" }

\* C16: extraction of a path that does not exist raises FileNotFoundError and
\* extraction of a file in an unsupported format raises too; neither returns
\* a successful result.
C16_MissingOrUnsupportedFileFails ==
    pc \in {"ingestion_raised", "process_document_returned", "ingested"} =>
        /\ ~file.exists => document_data = [raises |-> "FileNotFoundError"]
        /\ (~file.exists \/ suffix_lower(file.suffix) \notin SupportedFormats) =>
               (~ExtractionReturned /\ "raises" \in DOMAIN document_data)

----------------------------------------------------------------------------
(* Heuristic extractor *)

NonCompliantStatuses   == { STATUS_NonCompliant, LIT_non_compliant }
CompliantStatuses      == { STATUS_Compliant, LIT_compliant }
RequiresReviewStatuses == { STATUS_RequiresReview, LIT_requires_review }

\* C17: the status extracted from a text is Non-Compliant if the text
\* contains "non-compliant", otherwise Compliant if it contains "compliant",
\* otherwise Requires Review.
C17_StatusPrecedence ==
    pc = "extracted" =>
        extraction.status \in
            IF \E i \in DOMAIN extraction.text.phrases :
                   extraction.text.phrases[i] = "non-compliant"
            THEN NonCompliantStatuses
            ELSE IF \E i \in DOMAIN extraction.text.phrases :
                        extraction.text.phrases[i] = "compliant"
            THEN CompliantStatuses
            ELSE RequiresReviewStatuses

\* a text with both markers, the compliant one first, extracted by
\* ComplianceAgent
C17_Witness ==
    /\ pc = "extracted"
    /\ extraction.extractor = "ComplianceAgent"
    /\ extraction.text.phrases = << "compliant", "non-compliant" >>
    /\ extraction.status = STATUS_NonCompliant

\* C18: the confidence score extracted from a text lies in [0,100]: it is the
\* first integer after a "confidence score" marker, clamped to [0,100], or 70
\* when there is none.
C18_ConfidenceClampedDefault70 ==
    pc = "extracted" =>
        LET found == extraction.text.confidence
        IN  /\ extraction.confidence_score >= 0
            /\ extraction.confidence_score <= 100
            /\ extraction.confidence_score =
                   IF found = << >> THEN 70
                   ELSE IF found[1] > 100 THEN 100
                   ELSE IF found[1] < 0 THEN 0
                   ELSE found[1]

----------------------------------------------------------------------------
(* Scoring formula *)

\* the inputs of a risk report are those of an example of the scoring engine
ExampleInputs(compliance_score, confidence_score, quality, completeness) ==
    /\ HasRiskReport
    /\ compliance_report.compliance_score = compliance_score
    /\ compliance_report.confidence_score = confidence_score
    /\ risk_report.quality_risk = quality
    /\ risk_report.completeness_risk = completeness

\* C19: compliance_risk is compliance_score x confidence_score / 100, times
\* 0.9 when the confidence is below 60; the overall score is 0.60 x
\* compliance_risk + 0.25 x quality_risk + 0.15 x completeness_risk, reported
\* to two decimals; compliance 30, confidence 70, quality 100, completeness
\* 100 give compliance_risk 21, overall 52.6, level high and a notification.
C19_WeightedFormulaAndExampleB ==
    HasRiskReport =>
        LET product  == compliance_report.compliance_score
                            * compliance_report.confidence_score
            \* compliance_risk x 1000
            expected == IF compliance_report.confidence_score < 60
                        THEN product * 9 ELSE product * 10
            \* overall score x 10000
            overall  == 6 * expected + 2500 * risk_report.quality_risk
                            + 1500 * risk_report.completeness_risk
            reported == risk_report.overall_score * 100
        IN  /\ risk_report.compliance_risk = expected
            /\ reported - overall <= 50
            /\ overall - reported <= 50
            /\ ExampleInputs(30, 70, 100, 100) =>
                   /\ risk_report.compliance_risk = 21 * 1000
                   /\ risk_report.overall_score = 5260
                   /\ risk_report.risk_level = "high"
                   /\ risk_report.requires_notification

\* the report of Example B
C19_Witness ==
    /\ ExampleInputs(30, 70, 100, 100)
    /\ risk_report.overall_score = 5260

\* C20: compliance 90, confidence 100, quality 100 and completeness 100 give
\* overall score 90, level low and no notification.
C20_ExampleA ==
    ExampleInputs(90, 100, 100, 100) =>
        /\ risk_report.overall_score = 90 * 100
        /\ risk_report.risk_level = "low"
        /\ ~risk_report.requires_notification

\* C20 as amended: compliance 90, confidence 100, quality 100 and
\* completeness 100 give overall score 94 (0.60 x 90 + 0.25 x 100 + 0.15 x
\* 100), level low and no notification.
C20_ExampleA_Amended ==
    ExampleInputs(90, 100, 100, 100) =>
        /\ risk_report.overall_score = 94 * 100
        /\ risk_report.risk_level = "low"
        /\ ~risk_report.requires_notification

\* the report of Example A
C20_Witness ==
    /\ ExampleInputs(90, 100, 100, 100)
    /\ risk_report.risk_level = "low"

----------------------------------------------------------------------------
\* C21: for a fixed compliance score, the compliance risk never decreases as
\* the confidence score increases over 0..100, the threshold of 60 included:
\* no lower confidence gives a higher compliance risk than the one reported.
C21_ComplianceRiskMonotoneInConfidence ==
    HasRiskReport /\ pc \in {"scored", "decided"} =>
        \A k \in 0..compliance_report.confidence_score :
            calculate_compliance_risk([compliance_report EXCEPT !.confidence_score = k])
                <= risk_report.compliance_risk

\* a report at the threshold: confidence 60, where the 0.9 factor stops applying
C21_Witness ==
    /\ pc = "scored"
    /\ compliance_report.confidence_score = 60
    /\ compliance_report.compliance_score = 100
    /\ risk_report.compliance_risk = 60000
    /\ calculate_compliance_risk([compliance_report EXCEPT !.confidence_score = 59]) = 53100

----------------------------------------------------------------------------
\* C28: the three notification criteria agree: requires_notification of the
\* report, the decision of should_send_email, and "the risk level is high or
\* medium-high" are all true or all false.
C28_NotificationCriteriaAgree ==
    pc = "decided" =>
        /\ should_send[1] = risk_report.requires_notification
        /\ should_send[1] = (risk_report.risk_level \in {"high", "medium-high"})

\* a medium-high report whose reported score is the rounded-up 75.00: the
\* score test of should_send_email would say no, the level says yes
C28_Witness ==
    /\ pc = "decided"
    /\ risk_report.risk_level = "medium-high"
    /\ risk_report.overall_score = MEDIUM_RISK_THRESHOLD * 100
    /\ risk_report.requires_notification
    /\ should_send[1]

----------------------------------------------------------------------------
\* C22: a submission cancelled while suspended has aborted there: no later
\* stage has started, its context is Failed, and the outputs of the stages
\* completed before the cancellation are still in the context.
C22_CancelledSubmissionFailsWithPartialContext ==
    pc = "cancelled" =>
        LET cancelled == history[Len(history)].stage
        IN  /\ history[Len(history)].ev = "cancel"
            /\ workflow_results.status = "failed"
            /\ EarlierStages(cancelled) \subseteq Recorded
            /\ Recorded \cap { Stages[i] : i \in StageIndex(cancelled)..Len(Stages) } = {}

----------------------------------------------------------------------------
\* the steps recorded so far, wherever the variant keeps them
RecordedSteps == steps_of(variant, workflow_results, state_steps)

\* C24: the context is append-only: no step of a submission changes or
\* removes the result a stage has recorded, and no field of the context is
\* removed; steps only add.
C24_ContextIsAppendOnly ==
    [][ workflow_results # Unbound =>
          /\ \A s \in DOMAIN RecordedSteps :
                /\ s \in DOMAIN RecordedSteps'
                /\ RecordedSteps'[s] = RecordedSteps[s]
          /\ DOMAIN workflow_results \subseteq DOMAIN workflow_results' ]_vars

\* a completed submission: all five stages have written, and the first
\* result is still the one the ingestion stage recorded
C24_Witness ==
    /\ pc = "done"
    /\ DOMAIN RecordedSteps = { Stages[i] : i \in DOMAIN Stages }
    /\ RecordedSteps["ingestion"] = [status |-> "completed", metadata |-> metadata]
    /\ RecordedSteps["risk_scoring"].report = risk_report

----------------------------------------------------------------------------
\* C26: a completed submission whose overall status is requires_legal_review,
\* with notification enabled by the caller, has executed the notification
\* stage: the step is recorded as completed, not as skipped.
C26_LegalReviewIsNotified ==
    pc = "done" /\ send_email
    /\ outcome.result.overall_status = "requires_legal_review"
        => outcome.result.steps["notification"].status = "completed"

----------------------------------------------------------------------------
\* the score calculate_compliance_score_from_analysis reaches from a base
ScoreFromBase(base, text) ==
    LET eos     == extract_relevant_executive_orders(text)
        bonus   == bonus_of(text, positive_indicators)
                   + (IF Len(eos) >= 2 THEN 5 ELSE 0)
        penalty == penalty_of(text, negative_indicators)
                   - (IF Len(eos) = 0 THEN 10 ELSE 0)
    IN  Max(0, Min(100, base + bonus + penalty))

\* C25: the compliance score an orchestrator computes from the analysis
\* starts from the base of the extracted status, 30 for Non-Compliant, 90 for
\* Compliant and 60 for Requires Review, adds the keyword bonuses and
\* penalties and is clamped to 0..100.
C25_BaseScoreOfExtractedStatus ==
    pc = "variants" =>
        \A v \in DOMAIN variant_results.results \cap {"agent", "foundry"} :
            LET status == extract_status(variant_results.text)
                base   == CASE status = STATUS_NonCompliant   -> 30
                            [] status = STATUS_Compliant      -> 90
                            [] status = STATUS_RequiresReview -> 60
            IN  variant_results.results[v].compliance_report.compliance_score
                    = ScoreFromBase(base, variant_results.text)

----------------------------------------------------------------------------
\* C27: the three orchestrator classes are interchangeable: from the same
\* extraction result, summary and analysis text any two of them reach the
\* same compliance score, the same risk level and requires_notification,
\* the same notification decision and the same overall status.
C27_VariantsInterchangeable ==
    pc = "variants" =>
        \A v, w \in DOMAIN variant_results.results :
            LET a == variant_results.results[v]
                b == variant_results.results[w]
            IN  /\ a.compliance_report.compliance_score = b.compliance_report.compliance_score
                /\ a.risk_report.risk_level = b.risk_report.risk_level
                /\ a.risk_report.requires_notification = b.risk_report.requires_notification
                /\ a.notified = b.notified
                /\ a.overall_status = b.overall_status

----------------------------------------------------------------------------
\* the submissions that have been given an agent
WithAgent == { i \in Submitters : submissions[i].agent # Unbound }

\* every completed submission has the result it has when it runs alone: the
\* answer to its own proposal and nothing else, in its own context
ResultAsAlone ==
    \A i \in Submitters :
        submissions[i].at = "done" =>
            submissions[i].workflow_results =
                [status |-> "completed",
                 steps  |-> [compliance |->
                     [status   |-> "completed",
                      analysis |-> [answers |-> << submissions[i].proposal_text >>]]]]

----------------------------------------------------------------------------
\* C29: a webhook request answered with 401 has enqueued none of its
\* notifications.
C29_RejectedRequestEnqueuesNothing ==
    pc = "webhook_responded" /\ webhook.response.status_code = 401
        => webhook.queue = << >>

----------------------------------------------------------------------------
\* C30: an upload whose extension is not .pdf, .docx or .txt is answered
\* with status 400.
C30_InvalidFileTypeAnswered400 ==
    pc = "upload_responded"
    /\ upload_suffix_lower(upload.suffix) \notin {".pdf", ".docx", ".txt"}
        => upload.response.status_code = 400

====
